---- MODULE Spec2Model ----
(***************************************************************************)
(* Model of the PyTorch tutorial notebooks:                                *)
(*   - "Saving and Loading Models" (src/unnamed/part_000): the kernel      *)
(*     state of the notebook (model, state_dict, the file                  *)
(*     'checkpoint.pth') and one action per code cell;                     *)
(*   - "Training Neural Networks" (src/Part3-...ipynb): the single         *)
(*     training step and the training loop, statement by statement.        *)
(*                                                                         *)
(* A tensor is its shape plus a tag naming the generation of its values:   *)
(* every random initialisation and every training run produces a fresh     *)
(* tag, so two tensors hold the same numbers iff shape and tag agree.      *)
(* A Python dict / OrderedDict is an ordered sequence of <<key, value>>.   *)
(***************************************************************************)
EXTENDS Integers, Sequences, FiniteSets, TLC

VARIABLES
    model,          \* kernel name `model`: a Network object, or NoModel
    state_dict,     \* kernel name `state_dict` (cell 8), or Undefined
    file,           \* content of 'checkpoint.pth', or NoFile
    last,           \* number of the last cell executed (cells 1-3 at the start)
    defined12,      \* cell 12 has run: load_checkpoint is defined
    lc,             \* the frame of a running load_checkpoint call
    err,            \* the exception raised by the last executed cell
    nextTag,        \* next fresh generation of parameter values
    skipped,        \* history: a state-changing cell was left out so far
    trained,        \* history: the network as fc_model.train left it
    fileFrom,       \* history: the network whose state the file was saved from
    sdFrom,         \* history: the network whose state `state_dict` holds
    lastLoad,       \* history: the last load_state_dict call
    lastCall,       \* history: the last load_checkpoint call
    optimizer,      \* kernel name `optimizer` (cell 4)
    \* ---- the training notebook ----
    tpc,            \* the statement the training notebook executes next
    epochs,         \* `epochs`
    nBatches,       \* number of batches the loader yields per epoch
    print_every,    \* `print_every`
    e,              \* number of epochs of the loop begun so far
    b,              \* number of batches of the current epoch drawn so far
    steps,          \* `steps`
    running_loss,   \* `running_loss`
    images,         \* shape of the tensor `images`
    cur,            \* identity of the batch in `images, labels`
    output,         \* `output`: the logits, by batch and weight version
    loss,           \* `loss`: its value, batch and weight version
    grad,           \* the .grad of the parameters: the accumulated terms
    w,              \* version of the weights: number of optimizer steps
    lr,             \* learning rate of the current optimizer, in 1/1000
    sample,         \* shape of one sample the loader yields
    count,          \* history: operations of the loop so far, batches summed
    infer,          \* kernel names img, logits, ps of the inference cell
    lastStep,       \* history: the gradient the last optimizer step used
    nPrinted,       \* number of loss lines printed
    lastPrint,      \* the last loss line printed
    \* ---- two passes over one batch (the accumulation of gradients) ----
    npass,          \* which of the two passes is running
    didReset,       \* the gradients were reset between the two passes
    firstPass,      \* history: loss and gradient of the first pass
    \* ---- the network-definition notebook ----
    nlast,          \* number of the last cell executed
    hyper,          \* kernel names input_size, hidden_sizes, output_size
    nmodel,         \* kernel name `model` of that notebook
    nerr,           \* the exception raised by the last executed cell
    built,          \* history: the last construction and its arguments
    outs            \* history: the outputs of the forward passes so far

ckptVars == <<model, state_dict, file, last, defined12, lc, err,
              nextTag, skipped, trained, fileFrom, sdFrom, lastLoad, lastCall,
              optimizer>>

trainVars == <<tpc, epochs, nBatches, print_every, e, b, steps, running_loss,
               images, cur, output, loss, grad, w, lr, lastStep, nPrinted,
               lastPrint, sample, count, infer>>

lawVars == <<npass, didReset, firstPass>>

netVars == <<nlast, hyper, nmodel, nerr, built, outs>>

vars == <<ckptVars, trainVars, lawVars, netVars>>

----------------------------------------------------------------------------
(* Bounds and program constants *)

\* the literals of cells 4, 10 and 11
INPUT_SIZE == 784
OUTPUT_SIZE == 10

\* the training notebook: epochs, batches per epoch and print interval are
\* drawn up to these bounds; a batch's loss is a value in 1..MaxLoss
MaxEpochs == 3
MaxBatches == 3
MaxPrintEvery == 3
MaxLoss == 2

\* DataLoader(trainset, batch_size=64, ...)
BATCH_SIZE == 64

\* arguments a Network is constructed with: the two architectures of the
\* notebook, a shallower and a deeper one, and other input/output widths
HiddenChoices ==
    { <<512, 256, 128>>, <<400, 200, 100>>, <<128>>, <<128, 128>>, <<>> }
SizeChoices == { <<784, 10>>, <<16, 10>>, <<784, 5>> }

\* shapes of one sample: the 1x28x28 images of MNIST, and larger images
MNIST == <<1, 28, 28>>
SampleChoices == { MNIST, <<1, 32, 32>> }

\* values of hidden_sizes in the nn.Sequential cells: the notebooks' own
\* [128, 64], the empty list, a shorter and a longer list
HiddenSizesChoices == { <<128, 64>>, <<>>, <<128>>, <<256, 128, 64>> }

\* widths of the input a forward pass is given
InputWidths == { 784, 16 }

\* dropout masks are drawn from 1..MaxMask
MaxMask == 2

----------------------------------------------------------------------------
(* Python dicts: ordered sequences of <<key, value>> pairs *)

Keys(d) == { d[i][1] : i \in DOMAIN d }

Has(d, k) == k \in Keys(d)

Get(d, k) == d[CHOOSE i \in DOMAIN d : d[i][1] = k][2]

----------------------------------------------------------------------------
(* Tensors, layers, networks *)

Tensor(shape, tag) == [shape |-> shape, val |-> tag]

\* number of elements of a tensor of this shape
RECURSIVE Numel(_)
Numel(shape) == IF shape = <<>> THEN 1 ELSE shape[1] * Numel(Tail(shape))

Linear(in, out) == [in_features |-> in, out_features |-> out]

NoModel == [hidden_layers |-> <<>>, output |-> Linear(0, 0), params |-> <<>>]
Undefined == <<>>
NoFile == <<>>

\* the named parameters of a layer stack, in state-dict order:
\* hidden_layers.0.weight, hidden_layers.0.bias, ..., output.weight, output.bias
LayerOf(hl, out, l) == IF l <= Len(hl) THEN hl[l] ELSE out

PrefixOf(hl, l) ==
    IF l <= Len(hl) THEN "hidden_layers." \o ToString(l - 1) ELSE "output"

\* variant: a layer owns a weight only
Parameters_WeightsOnly(hl, out, tag) ==
    [ j \in 1..(Len(hl) + 1) |->
        << PrefixOf(hl, j) \o ".weight",
           Tensor(<<LayerOf(hl, out, j).out_features,
                    LayerOf(hl, out, j).in_features>>, tag) >> ]

Parameters(hl, out, tag) ==
    [ j \in 1..(2 * (Len(hl) + 1)) |->
        LET l == (j + 1) \div 2
            layer == LayerOf(hl, out, l)
        IN IF j % 2 = 1
           THEN << PrefixOf(hl, l) \o ".weight",
                   Tensor(<<layer.out_features, layer.in_features>>, tag) >>
           ELSE << PrefixOf(hl, l) \o ".bias",
                   Tensor(<<layer.out_features>>, tag) >> ]

\* fc_model.Network(input_size, output_size, hidden_layers): one Linear per
\* consecutive pair of [input_size] + hidden_layers, then the output Linear;
\* parameters are randomly initialised (a fresh tag)
Network(input_size, output_size, hidden_layers, tag) ==
    LET widths == <<input_size>> \o hidden_layers
        k == Len(hidden_layers)
        hl == [ i \in 1..k |-> Linear(widths[i], widths[i + 1]) ]
        out == Linear(widths[k + 1], output_size)
    IN [hidden_layers |-> hl, output |-> out, params |-> Parameters(hl, out, tag)]

\* model.state_dict()
StateDict(net) == net.params

\* fc_model.train(model, ...): the optimizer rewrites, in place, the
\* parameters it was constructed with
Train(net, tag) ==
    [net EXCEPT !.params =
        [ j \in DOMAIN net.params |->
            << net.params[j][1], [net.params[j][2] EXCEPT !.val = tag] >> ]]

\* the widths of a network, read off its layer objects
Widths(net) ==
    << [ i \in DOMAIN net.hidden_layers |->
            <<net.hidden_layers[i].in_features, net.hidden_layers[i].out_features>> ],
       <<net.output.in_features, net.output.out_features>> >>

----------------------------------------------------------------------------
(* Module.load_state_dict(state_dict, strict=True), as the traceback of      *)
(* cell 10 shows it: every own parameter found in the dict is copied; a      *)
(* failed copy adds a message naming the parameter and both shapes; the      *)
(* messages are raised together, after all copies, if there is any.          *)
(* A copy is taken to fail exactly when the two shapes differ.               *)

CopyError(name, own, given) ==
    [kind |-> "copy", name |-> name, model |-> own, checkpoint |-> given]

KeyErrors(own, sd) ==
    LET missing == Keys(own) \ Keys(sd)
        unexpected == Keys(sd) \ Keys(own)
    IN (IF missing # {} THEN << [kind |-> "missing", keys |-> missing] >> ELSE <<>>)
       \o (IF unexpected # {}
           THEN << [kind |-> "unexpected", keys |-> unexpected] >> ELSE <<>>)

\* variant: the first failed copy ends the loop, later ones are not reported
CopyErrors_FirstOnly(own, sd) ==
    LET attempt == [ j \in DOMAIN own |->
                       CopyError(own[j][1], own[j][2].shape,
                                 IF Has(sd, own[j][1])
                                 THEN Get(sd, own[j][1]).shape ELSE <<>>) ]
        failed == SelectSeq(attempt,
                            LAMBDA m : Has(sd, m.name) /\ m.checkpoint # m.model)
    IN IF failed = <<>> THEN <<>> ELSE <<failed[1]>>

CopyErrors(own, sd) ==
    LET attempt == [ j \in DOMAIN own |->
                       CopyError(own[j][1], own[j][2].shape,
                                 IF Has(sd, own[j][1])
                                 THEN Get(sd, own[j][1]).shape ELSE <<>>) ]
    IN SelectSeq(attempt, LAMBDA m : Has(sd, m.name) /\ m.checkpoint # m.model)

\* variant: nothing is copied, the parameters stay as they were
CopyParams_Nothing(own, sd) == own

CopyParams(own, sd) ==
    [ j \in DOMAIN own |->
        IF Has(sd, own[j][1]) /\ Get(sd, own[j][1]).shape = own[j][2].shape
        THEN << own[j][1], [own[j][2] EXCEPT !.val = Get(sd, own[j][1]).val] >>
        ELSE own[j] ]

\* variant: parameters of another shape are skipped without a message
load_state_dict_SkipMismatch(net, sd) ==
    LET error_msgs == KeyErrors(net.params, sd)
    IN [net |-> [net EXCEPT !.params = CopyParams(net.params, sd)],
        error_msgs |-> error_msgs,
        raised |-> Len(error_msgs) > 0]

load_state_dict(net, sd) ==
    LET error_msgs == KeyErrors(net.params, sd) \o CopyErrors(net.params, sd)
    IN [net |-> [net EXCEPT !.params = CopyParams(net.params, sd)],
        error_msgs |-> error_msgs,
        raised |-> Len(error_msgs) > 0]

----------------------------------------------------------------------------
(* Exceptions *)

NoError == [type |-> "none", msgs |-> <<>>]
RuntimeError(msgs) == [type |-> "RuntimeError", msgs |-> msgs]
KeyError(k) == [type |-> "KeyError", msgs |-> <<k>>]
NameError(n) == [type |-> "NameError", msgs |-> <<n>>]
FileNotFoundError == [type |-> "FileNotFoundError", msgs |-> <<"checkpoint.pth">>]

Raised(r) == IF r.raised THEN RuntimeError(r.error_msgs) ELSE NoError

----------------------------------------------------------------------------
(* History records *)

NoSave == [cell |-> 0, net |-> NoModel]

NoLoad == [before |-> NoModel, sd |-> Undefined, src |-> NoModel,
           after |-> NoModel, error_msgs |-> <<>>, raised |-> FALSE, by |-> 0]

LoadRecord(cell, net, sd, src, r) ==
    [before |-> net, sd |-> sd, src |-> src, after |-> r.net,
     error_msgs |-> r.error_msgs, raised |-> r.raised, by |-> cell]

NoCall == [status |-> "none", steps |-> <<>>, record |-> Undefined,
           result |-> NoModel, error |-> "none", from |-> NoSave,
           modelAtCall |-> NoModel, tagAtCall |-> 0,
           fileAtCall |-> NoFile, sdAtCall |-> Undefined]

LcIdle == [pc |-> "idle", checkpoint |-> Undefined, model |-> NoModel]

\* the cells that change kernel state, top to bottom (cell 6 only prints)
CellOrder == <<4, 5, 7, 8, 9, 10, 11, 12, 13>>

\* The cells run top to bottom; any of them may be left out.
CanRun(c) == lc.pc = "idle" /\ last < c

Ran(c) ==
    /\ last' = c
    /\ skipped' = (skipped \/ \E i \in DOMAIN CellOrder :
                                last < CellOrder[i] /\ CellOrder[i] < c)

\* the cells ran top to bottom, none left out, and cell c was the last
InOrderThrough(c) == last = c /\ ~skipped /\ lc.pc = "idle"

----------------------------------------------------------------------------
(* Optimizers: the rule and the learning rate, in 1/1000 *)

NoOptimizer == [rule |-> "none", lr |-> 0]

\* optim.SGD(model.parameters(), lr=...), without momentum
SGD(rate) == [rule |-> "SGD", lr |-> rate]

\* optim.Adam(model.parameters(), lr=...)
Adam(rate) == [rule |-> "Adam", lr |-> rate]

Sign(g) == IF g > 0 THEN 1 ELSE IF g < 0 THEN 0 - 1 ELSE 0

\* the value a parameter p with gradient g has after the first
\* optimizer.step(): SGD subtracts lr * g; Adam subtracts lr times the
\* gradient divided by the root of its running square, which at the first
\* step is the gradient's magnitude
Step(opt, p, g) ==
    IF opt.rule = "SGD" THEN p - opt.lr * g
    ELSE IF opt.rule = "Adam" THEN p - opt.lr * Sign(g)
    ELSE p

----------------------------------------------------------------------------
(* The state after the imports and data loading of cells 1-3 *)

InitCkpt ==
    /\ model = NoModel
    /\ state_dict = Undefined
    /\ file = NoFile
    /\ last = 3
    /\ defined12 = FALSE
    /\ lc = LcIdle
    /\ err = NoError
    /\ nextTag = 1
    /\ skipped = FALSE
    /\ trained = NoModel
    /\ fileFrom = NoSave
    /\ sdFrom = NoModel
    /\ lastLoad = NoLoad
    /\ lastCall = NoCall
    /\ optimizer = NoOptimizer

\* cell 4: model = fc_model.Network(784, 10, [512, 256, 128]); optimizer
Cell4(s, H) ==
    /\ CanRun(4)
    /\ model' = Network(s[1], s[2], H, nextTag)
    /\ nextTag' = nextTag + 1
    /\ optimizer' = Adam(1)
    /\ err' = NoError
    /\ Ran(4)
    /\ UNCHANGED <<state_dict, file, defined12, lc, trained, fileFrom, sdFrom,
                   lastLoad, lastCall>>
    /\ UNCHANGED <<trainVars, lawVars, netVars>>

\* cell 5: fc_model.train(model, trainloader, testloader, criterion, optimizer)
Cell5 ==
    /\ CanRun(5) /\ model # NoModel
    /\ model' = Train(model, nextTag)
    /\ nextTag' = nextTag + 1
    /\ trained' = model'
    /\ err' = NoError
    /\ Ran(5)
    /\ UNCHANGED <<optimizer, state_dict, file, defined12, lc, fileFrom,
                   sdFrom, lastLoad, lastCall>>
    /\ UNCHANGED <<trainVars, lawVars, netVars>>

\* cell 7: torch.save(model.state_dict(), 'checkpoint.pth')
Cell7 ==
    /\ CanRun(7) /\ model # NoModel
    /\ file' = StateDict(model)
    /\ fileFrom' = [cell |-> 7, net |-> model]
    /\ err' = NoError
    /\ Ran(7)
    /\ UNCHANGED <<optimizer, model, state_dict, defined12, lc, nextTag,
                   trained, sdFrom, lastLoad, lastCall>>
    /\ UNCHANGED <<trainVars, lawVars, netVars>>

\* cell 8: state_dict = torch.load('checkpoint.pth')
Cell8 ==
    /\ CanRun(8)
    /\ IF file = NoFile
       THEN /\ err' = FileNotFoundError
            /\ UNCHANGED <<state_dict, sdFrom>>
       ELSE /\ state_dict' = file
            /\ sdFrom' = IF fileFrom.cell = 7 THEN fileFrom.net ELSE NoModel
            /\ err' = NoError
    /\ Ran(8)
    /\ UNCHANGED <<optimizer, model, file, defined12, lc, nextTag, trained,
                   fileFrom, lastLoad, lastCall>>
    /\ UNCHANGED <<trainVars, lawVars, netVars>>

\* cell 9: model.load_state_dict(state_dict)
Cell9 ==
    /\ CanRun(9) /\ model # NoModel /\ state_dict # Undefined
    /\ LET r == load_state_dict(model, state_dict)
       IN /\ model' = r.net
          /\ err' = Raised(r)
          /\ lastLoad' = LoadRecord(9, model, state_dict, sdFrom, r)
    /\ Ran(9)
    /\ UNCHANGED <<optimizer, state_dict, file, defined12, lc, nextTag,
                   trained, fileFrom, sdFrom, lastCall>>
    /\ UNCHANGED <<trainVars, lawVars, netVars>>

\* cell 10: model = fc_model.Network(784, 10, [400, 200, 100])
\*          model.load_state_dict(state_dict)
Cell10(s, H) ==
    /\ CanRun(10)
    /\ LET fresh == Network(s[1], s[2], H, nextTag)
           r == load_state_dict(fresh, state_dict)
       IN IF state_dict = Undefined
          THEN /\ model' = fresh
               /\ err' = NameError("state_dict")
               /\ UNCHANGED lastLoad
          ELSE /\ model' = r.net
               /\ err' = Raised(r)
               /\ lastLoad' = LoadRecord(10, fresh, state_dict, sdFrom, r)
    /\ nextTag' = nextTag + 1
    /\ Ran(10)
    /\ UNCHANGED <<optimizer, state_dict, file, defined12, lc, trained, fileFrom, sdFrom,
                   lastCall>>
    /\ UNCHANGED <<trainVars, lawVars, netVars>>

\* variant: the writer names two fields differently from the reader
CheckpointRecord_Renamed(net) ==
    << <<"input_size", INPUT_SIZE>>,
       <<"output_size", OUTPUT_SIZE>>,
       <<"hidden_layer_sizes",
         [ i \in DOMAIN net.hidden_layers |-> net.hidden_layers[i].out_features ]>>,
       <<"parameters", StateDict(net)>> >>

\* cell 11: the checkpoint dictionary
CheckpointRecord(net) ==
    << <<"input_size", INPUT_SIZE>>,
       <<"output_size", OUTPUT_SIZE>>,
       <<"hidden_layers",
         [ i \in DOMAIN net.hidden_layers |-> net.hidden_layers[i].out_features ]>>,
       <<"state_dict", StateDict(net)>> >>

\* cell 11: torch.save(checkpoint, 'checkpoint.pth')
Cell11 ==
    /\ CanRun(11) /\ model # NoModel
    /\ file' = CheckpointRecord(model)
    /\ fileFrom' = [cell |-> 11, net |-> model]
    /\ err' = NoError
    /\ Ran(11)
    /\ UNCHANGED <<optimizer, model, state_dict, defined12, lc, nextTag,
                   trained, sdFrom, lastLoad, lastCall>>
    /\ UNCHANGED <<trainVars, lawVars, netVars>>

\* cell 12: def load_checkpoint(filepath)
Cell12 ==
    /\ CanRun(12)
    /\ defined12' = TRUE
    /\ err' = NoError
    /\ Ran(12)
    /\ UNCHANGED <<optimizer, model, state_dict, file, lc, nextTag, trained,
                   fileFrom, sdFrom, lastLoad, lastCall>>
    /\ UNCHANGED <<trainVars, lawVars, netVars>>

----------------------------------------------------------------------------
(* cell 13: model = load_checkpoint('checkpoint.pth'), statement by statement *)

\* the call: a new frame
Cell13 ==
    /\ CanRun(13) /\ defined12
    /\ lc' = [LcIdle EXCEPT !.pc = "read"]
    /\ lastCall' = [NoCall EXCEPT !.status = "running", !.from = fileFrom,
                                  !.modelAtCall = model,
                                  !.tagAtCall = nextTag,
                                  !.fileAtCall = file,
                                  !.sdAtCall = state_dict]
    /\ err' = NoError
    /\ Ran(13)
    /\ UNCHANGED <<optimizer, model, state_dict, file, defined12, nextTag, trained,
                   fileFrom, sdFrom, lastLoad>>
    /\ UNCHANGED <<trainVars, lawVars, netVars>>

\* an exception leaves the function: the frame is dropped, `model` is not bound
Fail(exc) ==
    /\ lc' = LcIdle
    /\ err' = exc
    /\ lastCall' = [lastCall EXCEPT !.status = "failed", !.error = exc.type]
    /\ UNCHANGED <<last, skipped>>

\* variant: a missing file is read as an empty record
LC_Read_Default ==
    /\ lc.pc = "read"
    /\ lc' = [lc EXCEPT !.pc = "construct", !.checkpoint = file]
    /\ lastCall' = [lastCall EXCEPT !.steps = Append(@, "read"),
                                    !.record = file]
    /\ UNCHANGED <<err, last, skipped>>
    /\ UNCHANGED <<optimizer, model, state_dict, file, defined12, nextTag,
                   trained, fileFrom, sdFrom, lastLoad>>
    /\ UNCHANGED <<trainVars, lawVars, netVars>>

\* variant: reading the artifact removes it
LC_Read_Consume ==
    /\ lc.pc = "read"
    /\ IF file = NoFile
       THEN Fail(FileNotFoundError)
       ELSE /\ lc' = [lc EXCEPT !.pc = "construct", !.checkpoint = file]
            /\ lastCall' = [lastCall EXCEPT !.steps = Append(@, "read"),
                                            !.record = file]
            /\ UNCHANGED <<err, last, skipped>>
    /\ file' = NoFile
    /\ UNCHANGED <<optimizer, model, state_dict, defined12, nextTag,
                   trained, fileFrom, sdFrom, lastLoad>>
    /\ UNCHANGED <<trainVars, lawVars, netVars>>

\* checkpoint = torch.load(filepath)
LC_Read ==
    /\ lc.pc = "read"
    /\ IF file = NoFile
       THEN Fail(FileNotFoundError)
       ELSE /\ lc' = [lc EXCEPT !.pc = "construct", !.checkpoint = file]
            /\ lastCall' = [lastCall EXCEPT !.steps = Append(@, "read"),
                                            !.record = file]
            /\ UNCHANGED <<err, last, skipped>>
    /\ UNCHANGED <<optimizer, model, state_dict, file, defined12, nextTag,
                   trained, fileFrom, sdFrom, lastLoad>>
    /\ UNCHANGED <<trainVars, lawVars, netVars>>

\* variant: a field the record lacks is replaced by a default
LC_Construct_Defaults ==
    /\ lc.pc = "construct"
    /\ LET c == lc.checkpoint
           Field(key, default) == IF Has(c, key) THEN Get(c, key) ELSE default
       IN /\ lc' = [lc EXCEPT !.pc = "load",
                       !.model = Network(Field("input_size", INPUT_SIZE),
                                         Field("output_size", OUTPUT_SIZE),
                                         Field("hidden_layers", <<>>), nextTag)]
          /\ nextTag' = nextTag + 1
          /\ lastCall' = [lastCall EXCEPT !.steps = Append(@, "construct")]
          /\ UNCHANGED <<err, last, skipped>>
    /\ UNCHANGED <<optimizer, model, state_dict, file, defined12, trained,
                   fileFrom, sdFrom, lastLoad>>
    /\ UNCHANGED <<trainVars, lawVars, netVars>>

\* model = fc_model.Network(checkpoint['input_size'],
\*                          checkpoint['output_size'],
\*                          checkpoint['hidden_layers'])
LC_Construct ==
    /\ lc.pc = "construct"
    /\ LET c == lc.checkpoint
       IN IF ~Has(c, "input_size") THEN Fail(KeyError("input_size")) /\ UNCHANGED nextTag
          ELSE IF ~Has(c, "output_size")
          THEN Fail(KeyError("output_size")) /\ UNCHANGED nextTag
          ELSE IF ~Has(c, "hidden_layers")
          THEN Fail(KeyError("hidden_layers")) /\ UNCHANGED nextTag
          ELSE /\ lc' = [lc EXCEPT !.pc = "load",
                            !.model = Network(Get(c, "input_size"),
                                              Get(c, "output_size"),
                                              Get(c, "hidden_layers"), nextTag)]
               /\ nextTag' = nextTag + 1
               /\ lastCall' = [lastCall EXCEPT !.steps = Append(@, "construct")]
               /\ UNCHANGED <<err, last, skipped>>
    /\ UNCHANGED <<optimizer, model, state_dict, file, defined12, trained,
                   fileFrom, sdFrom, lastLoad>>
    /\ UNCHANGED <<trainVars, lawVars, netVars>>

\* variant: the error of load_state_dict is swallowed and the network returned
LC_LoadState_Swallow ==
    /\ lc.pc = "load"
    /\ LET c == lc.checkpoint
           r == load_state_dict(lc.model, Get(c, "state_dict"))
       IN IF ~Has(c, "state_dict")
          THEN Fail(KeyError("state_dict")) /\ UNCHANGED lastLoad
          ELSE /\ lastLoad' = LoadRecord(13, lc.model, Get(c, "state_dict"),
                                         lastCall.from.net, r)
               /\ lc' = [lc EXCEPT !.pc = "return", !.model = r.net]
               /\ lastCall' = [lastCall EXCEPT !.steps = Append(@, "load")]
               /\ UNCHANGED <<err, last, skipped>>
    /\ UNCHANGED <<optimizer, model, state_dict, file, defined12, nextTag,
                   trained, fileFrom, sdFrom>>
    /\ UNCHANGED <<trainVars, lawVars, netVars>>

\* model.load_state_dict(checkpoint['state_dict'])
LC_LoadState ==
    /\ lc.pc = "load"
    /\ LET c == lc.checkpoint
           r == load_state_dict(lc.model, Get(c, "state_dict"))
       IN IF ~Has(c, "state_dict")
          THEN Fail(KeyError("state_dict")) /\ UNCHANGED lastLoad
          ELSE /\ lastLoad' = LoadRecord(13, lc.model, Get(c, "state_dict"),
                                         lastCall.from.net, r)
               /\ IF r.raised
                  THEN Fail(RuntimeError(r.error_msgs))
                  ELSE /\ lc' = [lc EXCEPT !.pc = "return", !.model = r.net]
                       /\ lastCall' = [lastCall EXCEPT !.steps = Append(@, "load")]
                       /\ UNCHANGED <<err, last, skipped>>
    /\ UNCHANGED <<optimizer, model, state_dict, file, defined12, nextTag,
                   trained, fileFrom, sdFrom>>
    /\ UNCHANGED <<trainVars, lawVars, netVars>>

\* return model; the caller binds the result to `model`
LC_Return ==
    /\ lc.pc = "return"
    /\ model' = lc.model
    /\ lc' = LcIdle
    /\ lastCall' = [lastCall EXCEPT !.status = "returned", !.result = lc.model]
    /\ UNCHANGED <<optimizer, state_dict, file, defined12, err, nextTag, last, skipped,
                   trained, fileFrom, sdFrom, lastLoad>>
    /\ UNCHANGED <<trainVars, lawVars, netVars>>

NextCkpt ==
    \/ \E s \in SizeChoices, H \in HiddenChoices : Cell4(s, H)
    \/ Cell5
    \/ Cell7
    \/ Cell8
    \/ Cell9
    \/ \E s \in SizeChoices, H \in HiddenChoices : Cell10(s, H)
    \/ Cell11
    \/ Cell12
    \/ Cell13
    \/ LC_Read
    \/ LC_Construct
    \/ LC_LoadState
    \/ LC_Return

----------------------------------------------------------------------------
(* The training notebook: the single step of cell 8 and the training loop *)

\* Tensor.resize_(n, width): the tensor takes the given shape
resize_(shape, n, width) == <<n, width>>

\* variant: the reset is left out, the gradients keep accumulating
zero_grad_Omitted(g) == g

\* optimizer.zero_grad(): the accumulated gradient terms are dropped
zero_grad(g) == <<>>

\* model.forward(images): the logits of a batch at a weight version
forward(batch, weights) == [batch |-> batch, w |-> weights]

\* criterion(output, labels): a scalar loss of these logits
criterion(out, v) == [value |-> v, batch |-> out.batch, w |-> out.w]

\* variant: the gradient of this loss replaces what .grad holds
backward_Overwrite(g, l) == << [batch |-> l.batch, w |-> l.w] >>

\* loss.backward(): the gradient of this loss is added to what .grad holds
backward(g, l) == Append(g, [batch |-> l.batch, w |-> l.w])

\* what optimizer.step() reads: the accumulated gradient and the rate
StepRecord == [grad |-> grad, lr |-> lr, batch |-> cur, w |-> w]

NoStep == [grad |-> <<>>, lr |-> 0, batch |-> <<0, 0>>, w |-> 0]

\* a printed line: the epoch label "e+1/epochs" and running_loss/print_every;
\* history: the step it was printed in and the number of batches summed
NoPrint == [epoch |-> 0, epochs |-> 0, sum |-> 0, over |-> 0, step |-> 0,
            n |-> 0]

\* history: resets, backward passes and optimizer steps of the loop so far,
\* and the number of batch losses added to running_loss since it was last 0
NoCount == [zero |-> 0, backward |-> 0, step |-> 0, summed |-> 0]

\* the inference cell has not run
NoInfer == [img |-> <<>>, logits |-> forward(<<0, 0>>, 0), ps |-> <<>>,
            shown |-> FALSE]

\* the state after the model, criterion and optimizer (lr=0.01) are built
TrainStart(E, B, P, S) ==
    /\ tpc = "c8_next"
    /\ sample = S
    /\ count = NoCount
    /\ infer = NoInfer
    /\ epochs = E
    /\ nBatches = B
    /\ print_every = P
    /\ e = 0
    /\ b = 0
    /\ steps = 0
    /\ running_loss = 0
    /\ images = <<>>
    /\ cur = <<0, 0>>
    /\ output = forward(<<0, 0>>, 0)
    /\ loss = criterion(forward(<<0, 0>>, 0), 0)
    /\ grad = <<>>
    /\ w = 0
    /\ lr = 10
    /\ lastStep = NoStep
    /\ nPrinted = 0
    /\ lastPrint = NoPrint

InitTrain ==
    \E E \in 1..MaxEpochs, B \in 1..MaxBatches, P \in 1..MaxPrintEvery,
       S \in SampleChoices :
        TrainStart(E, B, P, S)

\* cell 8: images, labels = next(iter(trainloader))
T8_Next ==
    /\ tpc = "c8_next"
    /\ images' = <<BATCH_SIZE>> \o sample
    /\ cur' = <<0, 1>>
    /\ tpc' = "c8_resize"
    /\ UNCHANGED <<count, infer, sample, epochs, nBatches, print_every, e, b, steps, running_loss,
                   output, loss, grad, w, lr, lastStep, nPrinted, lastPrint>>
    /\ UNCHANGED <<ckptVars, lawVars, netVars>>

\* cell 8: images.resize_(64, 784)
T8_Resize ==
    /\ tpc = "c8_resize"
    /\ images' = resize_(images, 64, 784)
    /\ tpc' = "c8_zero"
    /\ UNCHANGED <<count, infer, sample, epochs, nBatches, print_every, e, b, steps, running_loss,
                   cur, output, loss, grad, w, lr, lastStep, nPrinted,
                   lastPrint>>
    /\ UNCHANGED <<ckptVars, lawVars, netVars>>

\* cell 8: optimizer.zero_grad()
T8_Zero ==
    /\ tpc = "c8_zero"
    /\ grad' = zero_grad(grad)
    /\ tpc' = "c8_forward"
    /\ UNCHANGED <<count, infer, sample, epochs, nBatches, print_every, e, b, steps, running_loss,
                   images, cur, output, loss, w, lr, lastStep, nPrinted,
                   lastPrint>>
    /\ UNCHANGED <<ckptVars, lawVars, netVars>>

\* cell 8: output = model.forward(images)
T8_Forward ==
    /\ tpc = "c8_forward"
    /\ output' = forward(cur, w)
    /\ tpc' = "c8_loss"
    /\ UNCHANGED <<count, infer, sample, epochs, nBatches, print_every, e, b, steps, running_loss,
                   images, cur, loss, grad, w, lr, lastStep, nPrinted,
                   lastPrint>>
    /\ UNCHANGED <<ckptVars, lawVars, netVars>>

\* cell 8: loss = criterion(output, labels)
T8_Loss ==
    /\ tpc = "c8_loss"
    /\ \E v \in 1..MaxLoss : loss' = criterion(output, v)
    /\ tpc' = "c8_backward"
    /\ UNCHANGED <<count, infer, sample, epochs, nBatches, print_every, e, b, steps, running_loss,
                   images, cur, output, grad, w, lr, lastStep, nPrinted,
                   lastPrint>>
    /\ UNCHANGED <<ckptVars, lawVars, netVars>>

\* cell 8: loss.backward()
T8_Backward ==
    /\ tpc = "c8_backward"
    /\ grad' = backward(grad, loss)
    /\ tpc' = "c8_step"
    /\ UNCHANGED <<count, infer, sample, epochs, nBatches, print_every, e, b, steps, running_loss,
                   images, cur, output, loss, w, lr, lastStep, nPrinted,
                   lastPrint>>
    /\ UNCHANGED <<ckptVars, lawVars, netVars>>

\* cell 8: optimizer.step()
T8_Step ==
    /\ tpc = "c8_step"
    /\ w' = w + 1
    /\ lastStep' = StepRecord
    /\ tpc' = "c10"
    /\ UNCHANGED <<count, infer, sample, epochs, nBatches, print_every, e, b, steps, running_loss,
                   images, cur, output, loss, grad, lr, nPrinted, lastPrint>>
    /\ UNCHANGED <<ckptVars, lawVars, netVars>>

\* cell 10: optimizer = optim.SGD(model.parameters(), lr=0.003)
T10 ==
    /\ tpc = "c10"
    /\ lr' = 3
    /\ tpc' = "c14_init"
    /\ UNCHANGED <<count, infer, sample, epochs, nBatches, print_every, e, b, steps, running_loss,
                   images, cur, output, loss, grad, w, lastStep, nPrinted,
                   lastPrint>>
    /\ UNCHANGED <<ckptVars, lawVars, netVars>>

\* the loop cell: epochs = 3; print_every = 40; steps = 0
L_Init ==
    /\ tpc = "c14_init"
    /\ steps' = 0
    /\ e' = 0
    /\ tpc' = "for_e"
    /\ count' = NoCount
    /\ UNCHANGED <<infer, sample, epochs, nBatches, print_every, b, running_loss, images,
                   cur, output, loss, grad, w, lr, lastStep, nPrinted,
                   lastPrint>>
    /\ UNCHANGED <<ckptVars, lawVars, netVars>>

\* variant: the step counter starts again in every epoch
L_ForE_ResetSteps ==
    /\ tpc = "for_e"
    /\ IF e < epochs
       THEN /\ e' = e + 1
            /\ running_loss' = 0
            /\ b' = 0
            /\ steps' = 0
            /\ tpc' = "for_b"
       ELSE /\ tpc' = "done"
            /\ UNCHANGED <<e, running_loss, b, steps>>
    /\ count' = IF e < epochs THEN [count EXCEPT !.summed = 0] ELSE count
    /\ UNCHANGED <<infer, sample, epochs, nBatches, print_every, images, cur, output,
                   loss, grad, w, lr, lastStep, nPrinted, lastPrint>>
    /\ UNCHANGED <<ckptVars, lawVars, netVars>>

\* for e in range(epochs): running_loss = 0
L_ForE ==
    /\ tpc = "for_e"
    /\ IF e < epochs
       THEN /\ e' = e + 1
            /\ running_loss' = 0
            /\ b' = 0
            /\ tpc' = "for_b"
       ELSE /\ tpc' = "done"
            /\ UNCHANGED <<e, running_loss, b>>
    /\ count' = IF e < epochs THEN [count EXCEPT !.summed = 0] ELSE count
    /\ UNCHANGED <<infer, sample, epochs, nBatches, print_every, steps, images, cur, output,
                   loss, grad, w, lr, lastStep, nPrinted, lastPrint>>
    /\ UNCHANGED <<ckptVars, lawVars, netVars>>

\* for images, labels in iter(trainloader):
L_ForB ==
    /\ tpc = "for_b"
    /\ IF b < nBatches
       THEN /\ b' = b + 1
            /\ cur' = <<e, b + 1>>
            /\ images' = <<BATCH_SIZE>> \o sample
            /\ tpc' = "inc"
       ELSE /\ tpc' = "for_e"
            /\ UNCHANGED <<b, cur, images>>
    /\ UNCHANGED <<count, infer, sample, epochs, nBatches, print_every, e, steps, running_loss,
                   output, loss, grad, w, lr, lastStep, nPrinted, lastPrint>>
    /\ UNCHANGED <<ckptVars, lawVars, netVars>>

\* steps += 1
L_Inc ==
    /\ tpc = "inc"
    /\ steps' = steps + 1
    /\ tpc' = "resize"
    /\ UNCHANGED <<count, infer, sample, epochs, nBatches, print_every, e, b, running_loss, images,
                   cur, output, loss, grad, w, lr, lastStep, nPrinted,
                   lastPrint>>
    /\ UNCHANGED <<ckptVars, lawVars, netVars>>

\* images.resize_(images.size()[0], 784)
L_Resize ==
    /\ tpc = "resize"
    /\ images' = resize_(images, images[1], 784)
    /\ tpc' = "zero"
    /\ UNCHANGED <<count, infer, sample, epochs, nBatches, print_every, e, b, steps, running_loss,
                   cur, output, loss, grad, w, lr, lastStep, nPrinted,
                   lastPrint>>
    /\ UNCHANGED <<ckptVars, lawVars, netVars>>

\* optimizer.zero_grad()
L_Zero ==
    /\ tpc = "zero"
    /\ grad' = zero_grad(grad)
    /\ tpc' = "forward"
    /\ count' = [count EXCEPT !.zero = @ + 1]
    /\ UNCHANGED <<infer, sample, epochs, nBatches, print_every, e, b, steps, running_loss,
                   images, cur, output, loss, w, lr, lastStep, nPrinted,
                   lastPrint>>
    /\ UNCHANGED <<ckptVars, lawVars, netVars>>

\* variant: the forward pass uses the weights from before the last update
L_Forward_Stale ==
    /\ tpc = "forward"
    /\ output' = forward(cur, lastStep.w)
    /\ tpc' = "loss"
    /\ UNCHANGED <<count, infer, sample, epochs, nBatches, print_every, e, b, steps,
                   running_loss, images, cur, loss, grad, w, lr, lastStep,
                   nPrinted, lastPrint>>
    /\ UNCHANGED <<ckptVars, lawVars, netVars>>

\* output = model.forward(images)
L_Forward ==
    /\ tpc = "forward"
    /\ output' = forward(cur, w)
    /\ tpc' = "loss"
    /\ UNCHANGED <<count, infer, sample, epochs, nBatches, print_every, e, b, steps, running_loss,
                   images, cur, loss, grad, w, lr, lastStep, nPrinted,
                   lastPrint>>
    /\ UNCHANGED <<ckptVars, lawVars, netVars>>

\* loss = criterion(output, labels)
L_Loss ==
    /\ tpc = "loss"
    /\ \E v \in 1..MaxLoss : loss' = criterion(output, v)
    /\ tpc' = "backward"
    /\ UNCHANGED <<count, infer, sample, epochs, nBatches, print_every, e, b, steps, running_loss,
                   images, cur, output, grad, w, lr, lastStep, nPrinted,
                   lastPrint>>
    /\ UNCHANGED <<ckptVars, lawVars, netVars>>

\* loss.backward()
L_Backward ==
    /\ tpc = "backward"
    /\ grad' = backward(grad, loss)
    /\ tpc' = "step"
    /\ count' = [count EXCEPT !.backward = @ + 1]
    /\ UNCHANGED <<infer, sample, epochs, nBatches, print_every, e, b, steps, running_loss,
                   images, cur, output, loss, w, lr, lastStep, nPrinted,
                   lastPrint>>
    /\ UNCHANGED <<ckptVars, lawVars, netVars>>

\* optimizer.step()
L_Step ==
    /\ tpc = "step"
    /\ w' = w + 1
    /\ lastStep' = StepRecord
    /\ tpc' = "add"
    /\ count' = [count EXCEPT !.step = @ + 1]
    /\ UNCHANGED <<infer, sample, epochs, nBatches, print_every, e, b, steps, running_loss,
                   images, cur, output, loss, grad, lr, nPrinted, lastPrint>>
    /\ UNCHANGED <<ckptVars, lawVars, netVars>>

\* variant: the loss that is logged is computed again after the update
L_Add_Recomputed ==
    /\ tpc = "add"
    /\ running_loss' = running_loss + loss.value
    /\ loss' = criterion(forward(cur, w), loss.value)
    /\ tpc' = "print"
    /\ count' = [count EXCEPT !.summed = @ + 1]
    /\ UNCHANGED <<infer, sample, epochs, nBatches, print_every, e, b, steps, images, cur,
                   output, grad, w, lr, lastStep, nPrinted, lastPrint>>
    /\ UNCHANGED <<ckptVars, lawVars, netVars>>

\* running_loss += loss.item()
L_Add ==
    /\ tpc = "add"
    /\ running_loss' = running_loss + loss.value
    /\ tpc' = "print"
    /\ count' = [count EXCEPT !.summed = @ + 1]
    /\ UNCHANGED <<infer, sample, epochs, nBatches, print_every, e, b, steps, images, cur,
                   output, loss, grad, w, lr, lastStep, nPrinted, lastPrint>>
    /\ UNCHANGED <<ckptVars, lawVars, netVars>>

\* variant: a print ends the epoch
L_Print_Break ==
    /\ tpc = "print"
    /\ IF steps % print_every = 0
       THEN /\ nPrinted' = nPrinted + 1
            /\ lastPrint' = [epoch |-> e, epochs |-> epochs,
                             sum |-> running_loss, over |-> print_every,
                             step |-> steps, n |-> count.summed]
            /\ running_loss' = 0
       ELSE UNCHANGED <<nPrinted, lastPrint, running_loss>>
    /\ tpc' = IF steps % print_every = 0 THEN "for_e" ELSE "for_b"
    /\ count' = IF steps % print_every = 0
                THEN [count EXCEPT !.summed = 0] ELSE count
    /\ UNCHANGED <<infer, sample, epochs, nBatches, print_every, e, b, steps, images, cur,
                   output, loss, grad, w, lr, lastStep>>
    /\ UNCHANGED <<ckptVars, lawVars, netVars>>

\* if steps % print_every == 0: print(...); running_loss = 0
L_Print ==
    /\ tpc = "print"
    /\ IF steps % print_every = 0
       THEN /\ nPrinted' = nPrinted + 1
            /\ lastPrint' = [epoch |-> e, epochs |-> epochs,
                             sum |-> running_loss, over |-> print_every,
                             step |-> steps, n |-> count.summed]
            /\ running_loss' = 0
       ELSE UNCHANGED <<nPrinted, lastPrint, running_loss>>
    /\ tpc' = "for_b"
    /\ count' = IF steps % print_every = 0
                THEN [count EXCEPT !.summed = 0] ELSE count
    /\ UNCHANGED <<infer, sample, epochs, nBatches, print_every, e, b, steps, images, cur,
                   output, loss, grad, w, lr, lastStep>>
    /\ UNCHANGED <<ckptVars, lawVars, netVars>>

----------------------------------------------------------------------------
(* The inference cell of the training notebook *)

\* Tensor.view(n, width): allowed only if the number of elements agrees
ViewOk(shape, n, width) == Numel(shape) = n * width
view(shape, n, width) == <<n, width>>

\* F.softmax(logits, dim=1): the probabilities of these logits
softmax(l) == [of |-> l, kind |-> "probabilities"]

\* images, labels = next(iter(trainloader))
I_Next ==
    /\ tpc = "done"
    /\ images' = <<BATCH_SIZE>> \o sample
    /\ cur' = <<epochs + 1, 1>>
    /\ tpc' = "i_view"
    /\ UNCHANGED <<count, infer, sample, epochs, nBatches, print_every, e, b,
                   steps, running_loss, output, loss, grad, w, lr, lastStep,
                   nPrinted, lastPrint>>
    /\ UNCHANGED <<ckptVars, lawVars, netVars>>

\* img = images[0].view(1, 784)
I_View ==
    /\ tpc = "i_view"
    /\ IF ViewOk(Tail(images), 1, 784)
       THEN /\ infer' = [infer EXCEPT !.img = view(Tail(images), 1, 784)]
            /\ tpc' = "i_forward"
       ELSE /\ tpc' = "i_failed"
            /\ UNCHANGED infer
    /\ UNCHANGED <<count, sample, epochs, nBatches, print_every, e, b, steps,
                   running_loss, output, loss, grad, w, lr, lastStep,
                   nPrinted, lastPrint, images, cur>>
    /\ UNCHANGED <<ckptVars, lawVars, netVars>>

\* variant: the forward pass is followed by a backward pass and an update
I_Forward_Train ==
    /\ tpc = "i_forward"
    /\ infer' = [infer EXCEPT !.logits = forward(cur, w)]
    /\ grad' = backward(grad, criterion(forward(cur, w), 1))
    /\ w' = w + 1
    /\ tpc' = "i_softmax"
    /\ UNCHANGED <<count, sample, epochs, nBatches, print_every, e, b, steps,
                   running_loss, output, loss, lr, lastStep, nPrinted,
                   lastPrint, images, cur>>
    /\ UNCHANGED <<ckptVars, lawVars, netVars>>

\* with torch.no_grad(): logits = model.forward(img)
I_Forward ==
    /\ tpc = "i_forward"
    /\ infer' = [infer EXCEPT !.logits = forward(cur, w)]
    /\ tpc' = "i_softmax"
    /\ UNCHANGED <<count, sample, epochs, nBatches, print_every, e, b, steps,
                   running_loss, output, loss, grad, w, lr, lastStep,
                   nPrinted, lastPrint, images, cur>>
    /\ UNCHANGED <<ckptVars, lawVars, netVars>>

\* ps = F.softmax(logits, dim=1)
I_Softmax ==
    /\ tpc = "i_softmax"
    /\ infer' = [infer EXCEPT !.ps = softmax(infer.logits)]
    /\ tpc' = "i_show"
    /\ UNCHANGED <<count, sample, epochs, nBatches, print_every, e, b, steps,
                   running_loss, output, loss, grad, w, lr, lastStep,
                   nPrinted, lastPrint, images, cur>>
    /\ UNCHANGED <<ckptVars, lawVars, netVars>>

\* helper.view_classify(img.view(1, 28, 28), ps)
I_Show ==
    /\ tpc = "i_show"
    /\ infer' = [infer EXCEPT !.shown = TRUE]
    /\ tpc' = "end"
    /\ UNCHANGED <<count, sample, epochs, nBatches, print_every, e, b, steps,
                   running_loss, output, loss, grad, w, lr, lastStep,
                   nPrinted, lastPrint, images, cur>>
    /\ UNCHANGED <<ckptVars, lawVars, netVars>>

NextTrain ==
    \/ T8_Next
    \/ T8_Resize
    \/ T8_Zero
    \/ T8_Forward
    \/ T8_Loss
    \/ T8_Backward
    \/ T8_Step
    \/ T10
    \/ L_Init
    \/ L_ForE
    \/ L_ForB
    \/ L_Inc
    \/ L_Resize
    \/ L_Zero
    \/ L_Forward
    \/ L_Loss
    \/ L_Backward
    \/ L_Step
    \/ L_Add
    \/ L_Print
    \/ I_Next
    \/ I_View
    \/ I_Forward
    \/ I_Softmax
    \/ I_Show

----------------------------------------------------------------------------
(* Two passes over one batch: the statements of the single training step   *)
(* (zero_grad, forward, criterion, backward) run twice on the same batch    *)
(* without an optimizer step; the second reset may be left out.             *)

\* the batches a pass is run on
Batches == { <<1, 1>>, <<1, 2>>, <<2, 1>> }

NoPass == [loss |-> criterion(forward(<<0, 0>>, 0), 0), grad |-> <<>>]

\* no pass is being run
LawIdle ==
    /\ npass = 0
    /\ didReset = FALSE
    /\ firstPass = NoPass

\* a batch has been drawn and resized, the weights are at some version and
\* .grad holds what an earlier step left there
PassStart(batch, version, stale) ==
    /\ tpc = "p_zero"
    /\ sample = MNIST
    /\ count = NoCount
    /\ infer = NoInfer
    /\ epochs = 1
    /\ nBatches = 1
    /\ print_every = 1
    /\ e = 0
    /\ b = 0
    /\ steps = 0
    /\ running_loss = 0
    /\ images = <<BATCH_SIZE, 784>>
    /\ cur = batch
    /\ output = forward(<<0, 0>>, 0)
    /\ loss = criterion(forward(<<0, 0>>, 0), 0)
    /\ grad = stale
    /\ w = version
    /\ lr = 10
    /\ lastStep = NoStep
    /\ nPrinted = 0
    /\ lastPrint = NoPrint
    /\ npass = 1
    /\ didReset = FALSE
    /\ firstPass = NoPass

InitLaw ==
    \E batch \in Batches, version \in 0..MaxBatches,
       stale \in { <<>>, << [batch |-> <<0, 1>>, w |-> 0] >> } :
        PassStart(batch, version, stale)

\* optimizer.zero_grad()
P_Zero ==
    /\ tpc = "p_zero"
    /\ grad' = zero_grad(grad)
    /\ didReset' = (npass = 2)
    /\ tpc' = "p_forward"
    /\ UNCHANGED <<count, infer, sample, epochs, nBatches, print_every, e, b, steps,
                   running_loss, images, cur, output, loss, w, lr, lastStep,
                   nPrinted, lastPrint, npass, firstPass>>
    /\ UNCHANGED <<ckptVars, netVars>>

\* the second pass starts without optimizer.zero_grad()
P_NoZero ==
    /\ tpc = "p_zero"
    /\ npass = 2
    /\ tpc' = "p_forward"
    /\ UNCHANGED <<count, infer, sample, epochs, nBatches, print_every, e, b, steps,
                   running_loss, images, cur, output, loss, grad, w, lr,
                   lastStep, nPrinted, lastPrint, npass, didReset, firstPass>>
    /\ UNCHANGED <<ckptVars, netVars>>

\* output = model.forward(images)
P_Forward ==
    /\ tpc = "p_forward"
    /\ output' = forward(cur, w)
    /\ tpc' = "p_loss"
    /\ UNCHANGED <<count, infer, sample, epochs, nBatches, print_every, e, b, steps,
                   running_loss, images, cur, loss, grad, w, lr, lastStep,
                   nPrinted, lastPrint>>
    /\ UNCHANGED <<ckptVars, lawVars, netVars>>

\* loss = criterion(output, labels); the same logits and labels give the
\* same loss in both passes
P_Loss ==
    /\ tpc = "p_loss"
    /\ \E v \in 1..MaxLoss :
        /\ npass = 2 => v = firstPass.loss.value
        /\ loss' = criterion(output, v)
    /\ tpc' = "p_backward"
    /\ UNCHANGED <<count, infer, sample, epochs, nBatches, print_every, e, b, steps,
                   running_loss, images, cur, output, grad, w, lr, lastStep,
                   nPrinted, lastPrint>>
    /\ UNCHANGED <<ckptVars, lawVars, netVars>>

\* loss.backward()
P_Backward ==
    /\ tpc = "p_backward"
    /\ grad' = backward(grad, loss)
    /\ IF npass = 1
       THEN /\ firstPass' = [loss |-> loss, grad |-> grad']
            /\ npass' = 2
            /\ tpc' = "p_zero"
       ELSE /\ tpc' = "p_done"
            /\ UNCHANGED <<firstPass, npass>>
    /\ UNCHANGED <<count, infer, sample, epochs, nBatches, print_every, e, b, steps,
                   running_loss, images, cur, output, loss, w, lr, lastStep,
                   nPrinted, lastPrint, didReset>>
    /\ UNCHANGED <<ckptVars, netVars>>

NextLaw ==
    \/ P_Zero
    \/ P_NoZero
    \/ P_Forward
    \/ P_Loss
    \/ P_Backward

----------------------------------------------------------------------------
(* The networks the notebooks define: the class Network and the two         *)
(* nn.Sequential networks of the network-definition notebook, the           *)
(* nn.Sequential network of the training notebook, fc_model.Network.        *)

\* a module of a network
Module(kind, name, in, out) ==
    [kind |-> kind, name |-> name, in_features |-> in, out_features |-> out]

nn_Linear(name, in, out) == Module("Linear", name, in, out)
nn_ReLU(name) == Module("ReLU", name, 0, 0)
nn_Softmax(name) == Module("Softmax", name, 0, 0)
nn_Dropout(name) == Module("Dropout", name, 0, 0)

IsLinear(m) == m.kind = "Linear"

\* the affine layers among a sequence of modules, in order
Linears(mods) == SelectSeq(mods, IsLinear)

\* state_dict() of registered modules: weight and bias of every Linear
ModuleStateDict(mods, tag) ==
    LET lin == Linears(mods)
    IN [ j \in 1..(2 * Len(lin)) |->
           LET m == lin[(j + 1) \div 2]
           IN IF j % 2 = 1
              THEN << m.name \o ".weight",
                      Tensor(<<m.out_features, m.in_features>>, tag) >>
              ELSE << m.name \o ".bias", Tensor(<<m.out_features>>, tag) >> ]

\* the arguments of a construction
Args(input_size, hidden, output_size) ==
    [input_size |-> input_size, hidden |-> hidden, output_size |-> output_size]

NoArgs == Args(0, <<>>, 0)

\* a network object: the registered modules, the operations forward applies
\* in order, what forward is documented to return, the training flag, the
\* named parameters, the version of their values, and the arguments the
\* network was built from
NoNet == [modules |-> <<>>, ops |-> <<>>, doc |-> "", training |-> TRUE,
          params |-> <<>>, version |-> 0, args |-> NoArgs]

NoBuild == [by |-> "none", args |-> NoArgs, failed |-> FALSE]

IndexError == [type |-> "IndexError", msgs |-> <<"list index out of range">>]

\* hidden_sizes[i], indices from 0
InRange(list, i) == i < Len(list)
At(list, i) == list[i + 1]

\* variant: forward returns the output of fc3
ClassNetwork_NoSoftmax ==
    LET fc1 == nn_Linear("fc1", 784, 128)
        fc2 == nn_Linear("fc2", 128, 64)
        fc3 == nn_Linear("fc3", 64, 10)
    IN [modules |-> <<fc1, fc2, fc3>>,
        ops |-> <<fc1, nn_ReLU("F.relu"), fc2, nn_ReLU("F.relu"), fc3>>,
        doc |-> "logits",
        training |-> TRUE,
        params |-> ModuleStateDict(<<fc1, fc2, fc3>>, 0),
        version |-> 0,
        args |-> Args(784, <<128, 64>>, 10)]

\* class Network(nn.Module): fc1, fc2, fc3 registered in __init__; forward
\* applies fc1, relu, fc2, relu, fc3, softmax; its docstring says it
\* "returns the output logits"
ClassNetwork ==
    LET fc1 == nn_Linear("fc1", 784, 128)
        fc2 == nn_Linear("fc2", 128, 64)
        fc3 == nn_Linear("fc3", 64, 10)
    IN [modules |-> <<fc1, fc2, fc3>>,
        ops |-> <<fc1, nn_ReLU("F.relu"), fc2, nn_ReLU("F.relu"), fc3,
                  nn_Softmax("F.softmax")>>,
        doc |-> "logits",
        training |-> TRUE,
        params |-> ModuleStateDict(<<fc1, fc2, fc3>>, 0),
        version |-> 0,
        args |-> Args(784, <<128, 64>>, 10)]

\* nn.Sequential(...): forward passes the input through the modules in order
Sequential(mods, doc, args) ==
    [modules |-> mods, ops |-> mods, doc |-> doc, training |-> TRUE,
     params |-> ModuleStateDict(mods, 0), version |-> 0, args |-> args]

\* variant: the last Linear takes its input width from hidden_sizes[0]
Stack_Gap(h, names) ==
    << nn_Linear(names[1], h.input_size, At(h.hidden, 0)),
       nn_ReLU(names[2]),
       nn_Linear(names[3], At(h.hidden, 0), At(h.hidden, 1)),
       nn_ReLU(names[4]),
       nn_Linear(names[5], At(h.hidden, 0), h.output_size) >>

\* the five modules every nn.Sequential of the notebooks starts with
\* (names: those of the first, second, ... module)
Stack(h, names) ==
    << nn_Linear(names[1], h.input_size, At(h.hidden, 0)),
       nn_ReLU(names[2]),
       nn_Linear(names[3], At(h.hidden, 0), At(h.hidden, 1)),
       nn_ReLU(names[4]),
       nn_Linear(names[5], At(h.hidden, 1), h.output_size) >>

\* fc_model.Network as a network object: every hidden layer is followed by
\* a ReLU and the dropout module; the output layer's result is returned
FromNetwork(net, args) ==
    LET k == Len(net.hidden_layers)
        hidden == [ i \in 1..k |->
                      nn_Linear("hidden_layers." \o ToString(i - 1),
                                net.hidden_layers[i].in_features,
                                net.hidden_layers[i].out_features) ]
        out == nn_Linear("output", net.output.in_features,
                         net.output.out_features)
        drop == nn_Dropout("dropout")
    IN [modules |-> hidden \o <<out, drop>>,
        ops |-> [ j \in 1..(3 * k + 1) |->
                    IF j = 3 * k + 1 THEN out
                    ELSE IF j % 3 = 1 THEN hidden[(j + 2) \div 3]
                    ELSE IF j % 3 = 2 THEN nn_ReLU("F.relu")
                    ELSE drop ],
        doc |-> "logits",
        training |-> TRUE,
        params |-> StateDict(net),
        version |-> 0,
        args |-> args]

\* variant: every ReLU also drops units at random, in either mode
Apply_RandomReLU(m, v, training, mask) ==
    IF v.kind = "error" THEN v
    ELSE IF m.kind = "Linear"
    THEN IF v.width = m.in_features
         THEN [v EXCEPT !.width = m.out_features, !.kind = "affine"]
         ELSE [v EXCEPT !.kind = "error"]
    ELSE IF m.kind = "ReLU"
    THEN [v EXCEPT !.kind = "relu", !.mask = Append(@, mask)]
    ELSE IF m.kind = "Softmax" THEN [v EXCEPT !.kind = "softmax"]
    ELSE IF training THEN [v EXCEPT !.mask = Append(@, mask)]
    ELSE v

\* what one module does to a value; a value is its width, the kind of the
\* last operation applied, the dropout masks applied and the version of the
\* parameters used
Apply(m, v, training, mask) ==
    IF v.kind = "error" THEN v
    ELSE IF m.kind = "Linear"
    THEN IF v.width = m.in_features
         THEN [v EXCEPT !.width = m.out_features, !.kind = "affine"]
         ELSE [v EXCEPT !.kind = "error"]
    ELSE IF m.kind = "ReLU" THEN [v EXCEPT !.kind = "relu"]
    ELSE IF m.kind = "Softmax" THEN [v EXCEPT !.kind = "softmax"]
    ELSE IF training THEN [v EXCEPT !.mask = Append(@, mask)]
    ELSE v

RECURSIVE Through(_, _, _, _)
Through(ops, v, training, mask) ==
    IF ops = <<>> THEN v
    ELSE Through(Tail(ops), Apply(ops[1], v, training, mask), training, mask)

\* model.forward(x) for an input of the given width
Forward(net, x, mask) ==
    Through(net.ops,
            [width |-> x, kind |-> "input", mask |-> <<>>,
             version |-> net.version],
            net.training, mask)

\* no network notebook is being run
NetIdle ==
    /\ nlast = 0
    /\ hyper = Undefined
    /\ nmodel = NoNet
    /\ nerr = NoError
    /\ built = NoBuild
    /\ outs = <<>>

\* the cells of the network-definition notebook run top to bottom, any of
\* them may be left out; a kernel runs one notebook
NCanRun(c) == nlast < c /\ built.by \notin {"training", "fc_model"}

\* cell 6: class Network ...; model = Network()
N_Class ==
    /\ NCanRun(6)
    /\ nmodel' = ClassNetwork
    /\ built' = [by |-> "class", args |-> ClassNetwork.args, failed |-> FALSE]
    /\ nerr' = NoError
    /\ outs' = <<>>
    /\ nlast' = 6
    /\ UNCHANGED hyper
    /\ UNCHANGED <<ckptVars, trainVars, lawVars>>

\* cell 8: model.fc1.bias.data.fill_(0)
N_FillBias ==
    /\ NCanRun(8)
    /\ IF nmodel = NoNet
       THEN /\ nerr' = NameError("model")
            /\ UNCHANGED <<nmodel, outs>>
       ELSE /\ nmodel' = [nmodel EXCEPT !.version = @ + 1]
            /\ nerr' = NoError
            /\ outs' = <<>>
    /\ nlast' = 8
    /\ UNCHANGED <<hyper, built>>
    /\ UNCHANGED <<ckptVars, trainVars, lawVars>>

\* cell 9: model.fc1.weight.data.normal_(std=0.01)
N_Normal ==
    /\ NCanRun(9)
    /\ IF nmodel = NoNet
       THEN /\ nerr' = NameError("model")
            /\ UNCHANGED <<nmodel, outs>>
       ELSE /\ nmodel' = [nmodel EXCEPT !.version = @ + 1]
            /\ nerr' = NoError
            /\ outs' = <<>>
    /\ nlast' = 9
    /\ UNCHANGED <<hyper, built>>
    /\ UNCHANGED <<ckptVars, trainVars, lawVars>>

\* a construction from hidden_sizes[0] and hidden_sizes[1]: the lookups
\* raise IndexError on a shorter list and `model` stays as it was
Construct(by, h, net) ==
    IF InRange(h.hidden, 0) /\ InRange(h.hidden, 1)
    THEN /\ nmodel' = net
         /\ built' = [by |-> by, args |-> h, failed |-> FALSE]
         /\ nerr' = NoError
         /\ outs' = <<>>
    ELSE /\ built' = [by |-> by, args |-> h, failed |-> TRUE]
         /\ nerr' = IndexError
         /\ UNCHANGED <<nmodel, outs>>

\* cell 10: input_size = 784; hidden_sizes = [128, 64]; output_size = 10
\*          model = nn.Sequential(nn.Linear(input_size, hidden_sizes[0]), ...,
\*                                nn.Softmax(dim=1))
N_Sequential(s, H) ==
    /\ NCanRun(10)
    /\ LET h == Args(s[1], H, s[2])
       IN /\ hyper' = h
          /\ Construct("Sequential", h,
                       Sequential(Stack(h, <<"0", "1", "2", "3", "4">>)
                                    \o <<nn_Softmax("5")>>,
                                  "softmax", h))
    /\ nlast' = 10
    /\ UNCHANGED <<ckptVars, trainVars, lawVars>>

\* cell 11: model = nn.Sequential(OrderedDict([('fc1', ...), ...,
\*                                             ('softmax', nn.Softmax(dim=1))]))
N_OrderedDict ==
    /\ NCanRun(11)
    /\ IF hyper = Undefined
       THEN /\ nerr' = NameError("input_size")
            /\ UNCHANGED <<nmodel, built, outs>>
       ELSE Construct("OrderedDict", hyper,
                      Sequential(Stack(hyper, <<"fc1", "relu1", "fc2", "relu2",
                                                "output">>)
                                   \o <<nn_Softmax("softmax")>>,
                                 "softmax", hyper))
    /\ nlast' = 11
    /\ UNCHANGED hyper
    /\ UNCHANGED <<ckptVars, trainVars, lawVars>>

\* the training notebook: input_size = 784; hidden_sizes = [128, 64];
\* output_size = 10; model = nn.Sequential(OrderedDict([..., ('logits', ...)]))
N_Training(s, H) ==
    /\ nlast = 0
    /\ built = NoBuild
    /\ LET h == Args(s[1], H, s[2])
       IN /\ hyper' = h
          /\ Construct("training", h,
                       Sequential(Stack(h, <<"fc1", "relu1", "fc2", "relu2",
                                             "logits">>),
                                  "logits", h))
    /\ UNCHANGED nlast
    /\ UNCHANGED <<ckptVars, trainVars, lawVars>>

\* the save/load notebook: model = fc_model.Network(784, 10, [512, 256, 128])
N_FcModel(s, H) ==
    /\ nlast = 0
    /\ built = NoBuild
    /\ nmodel' = FromNetwork(Network(s[1], s[2], H, 0), Args(s[1], H, s[2]))
    /\ built' = [by |-> "fc_model", args |-> Args(s[1], H, s[2]),
                 failed |-> FALSE]
    /\ nerr' = NoError
    /\ outs' = <<>>
    /\ UNCHANGED <<nlast, hyper>>
    /\ UNCHANGED <<ckptVars, trainVars, lawVars>>

\* model.eval(): the training flag is cleared, dropout lets values through
N_Eval ==
    /\ nmodel # NoNet
    /\ nmodel.training
    /\ outs = <<>>
    /\ nmodel' = [nmodel EXCEPT !.training = FALSE]
    /\ UNCHANGED <<nlast, hyper, nerr, built, outs>>
    /\ UNCHANGED <<ckptVars, trainVars, lawVars>>

\* model.forward(x), at most twice on the network as it stands
N_Forward(x, mask) ==
    /\ nmodel # NoNet
    /\ Len(outs) < 2
    /\ outs' = Append(outs, [x |-> x, out |-> Forward(nmodel, x, mask)])
    /\ UNCHANGED <<nlast, hyper, nmodel, nerr, built>>
    /\ UNCHANGED <<ckptVars, trainVars, lawVars>>

NextNet ==
    \/ N_Class
    \/ N_FillBias
    \/ N_Normal
    \/ \E s \in SizeChoices, H \in HiddenSizesChoices : N_Sequential(s, H)
    \/ N_OrderedDict
    \/ \E s \in SizeChoices, H \in HiddenSizesChoices : N_Training(s, H)
    \/ \E s \in SizeChoices, H \in HiddenChoices : N_FcModel(s, H)
    \/ N_Eval
    \/ \E x \in InputWidths, mask \in 1..MaxMask : N_Forward(x, mask)

----------------------------------------------------------------------------
(* The notebooks run in separate kernels *)

\* the save/load notebook runs; the training notebook stays at its start
CkptInit == InitCkpt /\ TrainStart(1, 1, 1, MNIST) /\ LawIdle /\ NetIdle

SpecCkpt == CkptInit /\ [][NextCkpt]_vars

\* the training notebook runs; the save/load notebook stays at its start
TrainInit == InitTrain /\ InitCkpt /\ LawIdle /\ NetIdle

SpecTrain == TrainInit /\ [][NextTrain]_vars

\* the training notebook under the interpreter's scheduling: a cell that can
\* execute its next statement does execute it
SpecTrainLive == TrainInit /\ [][NextTrain]_vars /\ WF_vars(NextTrain)

\* the two passes over one batch
LawInit == InitLaw /\ InitCkpt /\ NetIdle

SpecLaw == LawInit /\ [][NextLaw]_vars

\* the network definitions
NetInit == NetIdle /\ InitCkpt /\ TrainStart(1, 1, 1, MNIST) /\ LawIdle

SpecNet == NetInit /\ [][NextNet]_vars

----------------------------------------------------------------------------
(* Properties of the save/load notebook *)

\* the architecture of the notebook's trained model and of its cell-10 model
Arch512 == Widths(Network(784, 10, <<512, 256, 128>>, 0))
Arch400 == Widths(Network(784, 10, <<400, 200, 100>>, 0))

Shapes(sd) == [ j \in DOMAIN sd |-> <<sd[j][1], sd[j][2].shape>> ]

\* the parameters present on both sides whose shapes differ
Mismatched(own, sd) ==
    { own[j][1] : j \in { i \in DOMAIN own :
                            Has(sd, own[i][1])
                            /\ Get(sd, own[i][1]).shape # own[i][2].shape } }

\* the last load_state_dict call had a target of another architecture than
\* the network the state dict was saved from
ArchMismatch ==
    /\ lastLoad.by # 0
    /\ lastLoad.src # NoModel
    /\ Widths(lastLoad.src) # Widths(lastLoad.before)

\* C1 (as claimed): all-or-nothing load. Whenever load_state_dict raises,
\* no parameter of the target network has been changed by that load.
C1_AllOrNothing ==
    lastLoad.raised => lastLoad.after.params = lastLoad.before.params

\* C2 (as claimed): round trip. For every network N, saving the checkpoint
\* record built from N and calling load_checkpoint on the file returns a
\* network with N's widths and N's parameter values at save time.
C2_RoundTrip ==
    (lastCall.from.cell = 11 /\ lastCall.status \in {"returned", "failed"})
    => /\ lastCall.status = "returned"
       /\ Widths(lastCall.result) = Widths(lastCall.from.net)
       /\ lastCall.result.params = lastCall.from.net.params

\* C3 (as claimed): when the cells run in order, the record written by
\* cell 11 holds the trained network's hidden widths and trained parameter
\* values, and load_checkpoint rebuilds the trained model.
C3_RecordFromTrained ==
    /\ InOrderThrough(11)
       => /\ Get(file, "hidden_layers")
               = [ i \in DOMAIN trained.hidden_layers |->
                     trained.hidden_layers[i].out_features ]
          /\ Get(file, "state_dict") = trained.params
    /\ InOrderThrough(13)
       => /\ lastCall.status = "returned"
          /\ Widths(model) = Widths(trained)
          /\ model.params = trained.params

C6_SelfDescribing ==
    /\ fileFrom.cell = 11
       => Shapes(Get(file, "state_dict"))
            = Shapes(Network(Get(file, "input_size"), Get(file, "output_size"),
                             Get(file, "hidden_layers"), 0).params)
    /\ lastCall.from.cell = 11 => lastCall.error # "RuntimeError"

\* C7 (as claimed): a checkpoint artifact is immutable once written. After
\* a write to 'checkpoint.pth' no later step writes different content to it.
C7_Immutable == [][file # NoFile => file' = file]_vars

\* C8: load_checkpoint runs read, construct, load in this order; the network
\* is constructed from exactly the record's three architecture fields and
\* receives the record's parameters; `model` is bound to it only after all
\* three steps succeeded, and a failing step returns no network.
C8_LoadOrder ==
    /\ lc.pc = "read" => lastCall.steps = <<>>
    /\ lc.pc = "construct" => lastCall.steps = <<"read">>
    /\ lc.pc = "load" => lastCall.steps = <<"read", "construct">>
    /\ lc.pc = "return" => lastCall.steps = <<"read", "construct", "load">>
    /\ lc.pc # "idle" => (lastCall.status = "running" /\ model = lastCall.modelAtCall)
    /\ lastCall.status = "returned"
       => /\ lastCall.steps = <<"read", "construct", "load">>
          /\ Widths(lastCall.result)
               = Widths(Network(Get(lastCall.record, "input_size"),
                                Get(lastCall.record, "output_size"),
                                Get(lastCall.record, "hidden_layers"), 0))
          /\ lastCall.result.params = Get(lastCall.record, "state_dict")
          /\ model = lastCall.result
    /\ lastCall.status = "failed"
       => /\ Len(lastCall.steps) < 3
          /\ lastCall.result = NoModel
          /\ model = lastCall.modelAtCall

C8_Witness ==
    /\ lastCall.status = "returned"
    /\ lc.pc = "idle"
    /\ lastCall.result # NoModel
    /\ model = lastCall.result
    /\ model.params = lastCall.from.net.params

\* the field names the spec gives the record
SpecRecordKeys == {"input_size", "output_size", "hidden_layer_sizes", "parameters"}

\* the field names of the record in the notebook
RecordKeys == {"input_size", "output_size", "hidden_layers", "state_dict"}

----------------------------------------------------------------------------
(* Properties of the training notebook *)

\* the gradient of the current batch alone, at the current weights
OwnGradient == << [batch |-> cur, w |-> w] >>

\* C10: in every iteration of the training loop the accumulated gradients
\* are cleared before that iteration's backward pass, so every optimizer
\* step uses the gradient of the current batch alone, never a sum that
\* includes an earlier batch.
C10_GradientsReset ==
    /\ tpc \in {"forward", "loss", "backward"} => grad = <<>>
    /\ tpc = "step" => grad = OwnGradient
    /\ tpc \in {"add", "print", "for_b", "for_e", "done"}
       => /\ Len(lastStep.grad) = 1
          /\ lastStep.grad[1].batch = lastStep.batch
          /\ lastStep.grad[1].w = lastStep.w

C10_Witness ==
    /\ tpc = "step"
    /\ e = 2
    /\ steps >= 3
    /\ grad = OwnGradient
    /\ lastStep.batch # cur

----------------------------------------------------------------------------
(* Properties of the two passes over one batch *)

\* the gradient one backward pass of this loss leaves in cleared .grad
SingleGradient(l) == backward(<<>>, l)

----------------------------------------------------------------------------
(* Properties of the network definitions *)

\* the constructions that take their widths from a hidden-widths list
Parameterised == {"Sequential", "OrderedDict", "training", "fc_model"}

\* C12 (as claimed): constructing a network with an empty hidden-widths
\* list is not an error and yields a single affine transform from
\* input_size to output_size, in every construction that takes such a list.
C12_EmptyHiddenLegal ==
    (built.by \in Parameterised /\ built.args.hidden = <<>>)
    => /\ ~built.failed
       /\ nerr = NoError
       /\ nmodel.args = built.args
       /\ Len(Linears(nmodel.modules)) = 1
       /\ Linears(nmodel.modules)[1].in_features = built.args.input_size
       /\ Linears(nmodel.modules)[1].out_features = built.args.output_size

\* the affine layers lead from width `in` to width `out` without a gap
Chains(lin, in, out) ==
    /\ Len(lin) >= 1
    /\ lin[1].in_features = in
    /\ \A i \in 1..(Len(lin) - 1) : lin[i].out_features = lin[i + 1].in_features
    /\ lin[Len(lin)].out_features = out

\* C13: shape chaining. In every constructed network the first affine
\* layer takes input_size, every layer's output width is the next layer's
\* input width and the last layer gives output_size; an input of width
\* input_size passes through all of them.
C13_ShapeChain ==
    nmodel # NoNet
    => /\ Chains(Linears(nmodel.modules), nmodel.args.input_size,
                 nmodel.args.output_size)
       /\ Chains(Linears(nmodel.ops), nmodel.args.input_size,
                 nmodel.args.output_size)
       /\ \A i \in DOMAIN outs :
            outs[i].x = nmodel.args.input_size
            => /\ outs[i].out.kind # "error"
               /\ outs[i].out.width = nmodel.args.output_size

C13_Witness ==
    /\ built = [by |-> "Sequential", args |-> Args(16, <<256, 128, 64>>, 10),
                failed |-> FALSE]
    /\ nmodel.args = built.args
    /\ Len(Linears(nmodel.modules)) = 3
    /\ Len(outs) = 1
    /\ outs[1].x = 16
    /\ outs[1].out.width = 10

\* C14: for hidden widths [h_1..h_k] fc_model.Network has exactly k+1
\* affine layers, one per consecutive pair of [input_size, h_1, ..., h_k,
\* output_size], and its state dict has exactly 2(k+1) entries: weight then
\* bias of hidden_layers.0, ..., hidden_layers.(k-1), output, in this order.
C14_LayersAndParameters ==
    built.by = "fc_model"
    => LET H == built.args.hidden
           k == Len(H)
           widths == <<built.args.input_size>> \o H \o <<built.args.output_size>>
           lin == Linears(nmodel.modules)
           sd == nmodel.params
           name == [ i \in 1..(k + 1) |->
                       IF i <= k THEN "hidden_layers." \o ToString(i - 1)
                       ELSE "output" ]
       IN /\ Len(lin) = k + 1
          /\ \A i \in 1..(k + 1) :
               /\ lin[i].in_features = widths[i]
               /\ lin[i].out_features = widths[i + 1]
          /\ Len(sd) = 2 * (k + 1)
          /\ \A i \in 1..(k + 1) :
               /\ sd[2 * i - 1][1] = name[i] \o ".weight"
               /\ sd[2 * i - 1][2].shape = <<widths[i + 1], widths[i]>>
               /\ sd[2 * i][1] = name[i] \o ".bias"
               /\ sd[2 * i][2].shape = <<widths[i + 1]>>

C14_Witness ==
    /\ built.by = "fc_model"
    /\ built.args = Args(784, <<512, 256, 128>>, 10)
    /\ Len(Linears(nmodel.modules)) = 4
    /\ [ j \in DOMAIN nmodel.params |-> nmodel.params[j][1] ]
         = << "hidden_layers.0.weight", "hidden_layers.0.bias",
              "hidden_layers.1.weight", "hidden_layers.1.bias",
              "hidden_layers.2.weight", "hidden_layers.2.bias",
              "output.weight", "output.bias" >>

\* C15 (as claimed): in every network whose forward is documented as
\* returning logits, every hidden affine transform is followed by a ReLU
\* and forward returns the raw output of the final affine transform, with
\* no terminal nonlinearity.
C15_ForwardReturnsLogits ==
    (nmodel # NoNet /\ nmodel.doc = "logits")
    => LET ops == nmodel.ops
       IN /\ ops[Len(ops)].kind = "Linear"
          /\ \A i \in 1..(Len(ops) - 1) :
               ops[i].kind = "Linear" => ops[i + 1].kind = "ReLU"
          /\ \A i \in DOMAIN outs : outs[i].out.kind \in {"affine", "error"}

\* dropout takes effect in a forward pass of this network
DropoutActive(net) ==
    /\ net.training
    /\ \E i \in DOMAIN net.ops : net.ops[i].kind = "Dropout"

----------------------------------------------------------------------------
(* Further properties of the save/load notebook *)

\* values of a parameter and of its gradient the update rule is tried on
Values == { 0 - 2, 0 - 1, 0, 1, 2 }

\* C16 (as claimed): parameter update rule. Every training step replaces
\* each parameter w by w - learning_rate * gradient(w).
C16_UpdateRule ==
    trained # NoModel
    => \A p \in Values, g \in Values :
         Step(optimizer, p, g) = p - optimizer.lr * g

\* C18: resource error. load_checkpoint on a path with no artifact fails
\* with the error of the read, surfaced to the caller; no Network is
\* constructed or returned and nothing is done after the failed read.
C18_MissingArtifact ==
    (lastCall.status # "none" /\ lastCall.from = NoSave)
    => /\ lastCall.steps = <<>>
       /\ lastCall.result = NoModel
       /\ lastCall.record = Undefined
       /\ nextTag = lastCall.tagAtCall
       /\ model = lastCall.modelAtCall
       /\ lastCall.status = "running" => lc.pc = "read"
       /\ lastCall.status # "running"
          => /\ lastCall.status = "failed"
             /\ lastCall.error = "FileNotFoundError"
             /\ err = FileNotFoundError
             /\ lc = LcIdle

C18_Witness ==
    /\ lastCall.status = "failed"
    /\ lastCall.from = NoSave
    /\ file = NoFile
    /\ err = FileNotFoundError
    /\ lastCall.result = NoModel
    /\ last = 13

----------------------------------------------------------------------------
(* Further properties of the training notebook *)

\* C17 (as claimed): a batch whose samples do not have input_size (784)
\* elements makes the training step fail; it is never resized to width 784
\* and fed to the network.
C17_MismatchFatal ==
    Numel(sample) # 784 => tpc \in {"c8_next", "c8_resize"}

\* C19: batches are processed strictly sequentially. From the forward pass
\* of a batch to its update, the logits, the loss and the gradient are
\* those of this batch at the weights the previous batch's update produced;
\* every update happens before the next batch is drawn.
C19_Sequential ==
    /\ tpc \in {"loss", "backward", "step"}
       => /\ output = forward(cur, w)
          /\ w = steps
          /\ lastStep.w = w - 1
          /\ lastStep.batch # cur
    /\ tpc \in {"backward", "step"}
       => /\ loss.batch = cur
          /\ loss.w = w
    /\ tpc = "step" => \A i \in DOMAIN grad : grad[i].batch = cur
    /\ tpc \in {"add", "print"}
       => /\ lastStep.batch = cur
          /\ lastStep.w = output.w
          /\ w = steps + 1
    /\ tpc \in {"inc", "resize", "zero", "forward"} => lastStep.batch # cur

C19_Witness ==
    /\ tpc = "step"
    /\ steps = 2
    /\ b = 2
    /\ output = forward(cur, 2)
    /\ lastStep.batch = <<1, 1>>
    /\ lastStep.w = 1

----------------------------------------------------------------------------
(* The order of a training step, the logging of the loop, inference *)

\* the gradient term a backward pass of this loss adds
Term(l) == [batch |-> l.batch, w |-> l.w]

\* the statements of the loop that come after the loop has ended
AfterLoop == {"done", "i_view", "i_forward", "i_softmax", "i_show", "end",
              "i_failed"}

\* C21: every training step, the single step and every iteration of the
\* loop, flattens the batch, clears the gradients, runs the forward pass,
\* computes the loss, runs the backward pass and then lets the optimizer
\* step, in this order; the step comes after the backward pass of the same
\* iteration and the loss that is logged was computed before that step.
C21_StepOrder ==
    /\ tpc \in {"zero", "c8_zero", "forward", "c8_forward"}
       => images = <<BATCH_SIZE, 784>>
    /\ tpc \in {"forward", "c8_forward"} => grad = <<>>
    /\ tpc \in {"loss", "c8_loss"}
       => /\ grad = <<>>
          /\ output = forward(cur, w)
    /\ tpc \in {"backward", "c8_backward"}
       => /\ grad = <<>>
          /\ loss.batch = output.batch
          /\ loss.w = output.w
          /\ output = forward(cur, w)
    /\ tpc \in {"step", "c8_step"}
       => /\ grad = <<Term(loss)>>
          /\ loss.batch = cur
          /\ loss.w = w
    /\ tpc \in {"c10", "add", "print"}
       => /\ lastStep.grad = <<Term(loss)>>
          /\ lastStep.batch = cur
          /\ loss.batch = cur
          /\ loss.w = lastStep.w
          /\ w = lastStep.w + 1

C21_Witness ==
    /\ tpc = "print"
    /\ steps = 2
    /\ lastStep.grad = <<Term(loss)>>
    /\ loss.w = 2
    /\ w = 3
    /\ running_loss >= loss.value

\* C22: loading a state dict back into a network of the architecture it was
\* saved from succeeds and leaves every parameter at its value at save
\* time; loading it a second time changes nothing.
C22_SameArchitectureLoad ==
    (lastLoad.by \in {9, 10} /\ Widths(lastLoad.before) = Widths(lastLoad.src))
    => /\ ~lastLoad.raised
       /\ lastLoad.sd = StateDict(lastLoad.src)
       /\ lastLoad.after.params = lastLoad.src.params
       /\ LET again == load_state_dict(lastLoad.after, lastLoad.sd)
          IN /\ ~again.raised
             /\ again.net = lastLoad.after

C22_Witness ==
    /\ lastLoad.by = 10
    /\ Widths(lastLoad.before) = Widths(lastLoad.src)
    /\ lastLoad.before.params # lastLoad.src.params
    /\ lastLoad.after.params = lastLoad.src.params
    /\ model = lastLoad.after

\* an operation without its name: kind and widths
Op(m) == <<m.kind, m.in_features, m.out_features>>

\* the operations forward applies, in order
Architecture(net) == [ i \in DOMAIN net.ops |-> Op(net.ops[i]) ]

\* the shapes of the parameters, in order
ParamShapes(net) == [ j \in DOMAIN net.params |-> net.params[j][2].shape ]

C24_InferenceReadOnly ==
    /\ tpc \in AfterLoop
       => /\ w = lastStep.w + 1
          /\ grad = lastStep.grad
          /\ w = epochs * nBatches + 1
    /\ tpc \in {"i_softmax", "i_show", "end"}
       => infer.logits = forward(cur, lastStep.w + 1)
    /\ tpc \in {"i_show", "end"} => infer.ps = softmax(infer.logits)

C24_Witness ==
    /\ tpc = "end"
    /\ infer.shown
    /\ infer.img = <<1, 784>>
    /\ infer.ps = softmax(forward(<<epochs + 1, 1>>, w))
    /\ grad = lastStep.grad
    /\ Len(grad) = 1

\* C25: load_checkpoint returns a newly constructed network and has no
\* other effect: the artifact and the loaded state dict stay as they were
\* at the call, and the network bound to `model` before the call is not
\* touched while the function runs or when it fails.
C25_NoOtherEffect ==
    lastCall.status # "none"
    => /\ file = lastCall.fileAtCall
       /\ fileFrom = lastCall.from
       /\ state_dict = lastCall.sdAtCall
       /\ lastCall.status \in {"running", "failed"}
          => model = lastCall.modelAtCall
       /\ lastCall.status = "returned"
          => /\ model = lastCall.result
             /\ nextTag = lastCall.tagAtCall + 1
             /\ lastCall.result
                  = load_state_dict(
                      Network(Get(file, "input_size"), Get(file, "output_size"),
                              Get(file, "hidden_layers"), lastCall.tagAtCall),
                      Get(file, "state_dict")).net

C25_Witness ==
    /\ lastCall.status = "returned"
    /\ lastCall.modelAtCall # NoModel
    /\ lastCall.steps = <<"read", "construct", "load">>
    /\ nextTag = lastCall.tagAtCall + 1
    /\ model = lastCall.result
    /\ file = lastCall.fileAtCall
    /\ file # NoFile

\* C26 (as claimed): every printed loss is the mean of exactly print_every
\* batch losses, the first print after an epoch boundary included.
C26_MeanOfPrintEvery ==
    lastPrint.step # 0 => lastPrint.n = lastPrint.over

\* C27: steps counts the batches across epochs and is never reset. After i
\* iterations steps = i; a line is printed exactly when steps is a multiple
\* of print_every, labelled with the 1-based epoch of that step; epochs
\* epochs of nBatches batches print floor(epochs*nBatches/print_every) lines.
C27_StepsAndPrints ==
    /\ tpc = "for_e"
       => /\ steps = e * nBatches
          /\ nPrinted = steps \div print_every
    /\ tpc = "for_b"
       => /\ steps = (e - 1) * nBatches + b
          /\ nPrinted = steps \div print_every
    /\ tpc = "inc" => steps + 1 = (e - 1) * nBatches + b
    /\ tpc \in {"resize", "zero", "forward", "loss", "backward", "step", "add",
                "print"}
       => /\ steps = (e - 1) * nBatches + b
          /\ nPrinted = (steps - 1) \div print_every
    /\ tpc \in {"for_e", "for_b", "inc", "resize", "zero", "forward", "loss",
                "backward", "step", "add", "print"} \cup AfterLoop
       => (lastPrint.step # 0
           => /\ lastPrint.step % print_every = 0
              /\ lastPrint.step = nPrinted * print_every
              /\ lastPrint.epoch = ((lastPrint.step - 1) \div nBatches) + 1
              /\ lastPrint.epochs = epochs)
    /\ tpc \in AfterLoop
       => /\ steps = epochs * nBatches
          /\ nPrinted = (epochs * nBatches) \div print_every

C27_Witness ==
    /\ tpc = "done"
    /\ epochs = 2
    /\ nBatches = 3
    /\ print_every = 2
    /\ steps = 6
    /\ nPrinted = 3
    /\ lastPrint.epoch = 2

\* C28: the loop terminates, after exactly epochs*nBatches iterations, and
\* every iteration does one gradient reset, one backward pass and one
\* optimizer step.
C28_Terminates ==
    /\ <>(tpc = "done")
    /\ [](tpc \in AfterLoop
          => /\ steps = epochs * nBatches
             /\ count.zero = steps
             /\ count.backward = steps
             /\ count.step = steps)
    /\ [](tpc \in {"for_e", "for_b"}
          => /\ count.zero = steps
             /\ count.backward = steps
             /\ count.step = steps)

C28_Witness ==
    /\ tpc = "done"
    /\ epochs = 3
    /\ nBatches = 2
    /\ count.zero = 6
    /\ count.backward = 6
    /\ count.step = 6

\* C29: load_checkpoint on the file cell 7 wrote, a bare state dict, fails
\* with KeyError('input_size') before any network is constructed and
\* returns nothing.
C29_BareStateDict ==
    lastCall.from.cell = 7
    => /\ lastCall.status # "returned"
       /\ nextTag = lastCall.tagAtCall
       /\ lastCall.result = NoModel
       /\ model = lastCall.modelAtCall
       /\ lastCall.status = "running"
          => /\ lc.pc \in {"read", "construct"}
             /\ lc.model = NoModel
       /\ lastCall.status = "failed"
          => /\ err = KeyError("input_size")
             /\ lastCall.error = err.type
             /\ lastCall.steps = <<"read">>

C29_Witness ==
    /\ lastCall.from.cell = 7
    /\ lastCall.status = "failed"
    /\ err = KeyError("input_size")
    /\ lastCall.record = StateDict(lastCall.from.net)
    /\ lc = LcIdle

====
